---------------------------- MODULE Spec2Model ----------------------------
(***************************************************************************)
(* A state-machine model of the two MCP servers of the repository:         *)
(*   src/TestHttpToolsMcpServer.py  (debug_info, fetch_api_data,           *)
(*                                   weather_api, shared aiohttp session)  *)
(*   src/mcpserver.py               (echo, debug_info)                     *)
(*                                                                         *)
(* Scheduling is asyncio's: one event loop, a coroutine runs until it      *)
(* really suspends.  `await get_http_session()` runs a coroutine that      *)
(* holds no await of its own, so it never suspends; the only suspension    *)
(* of a tool call is inside `async with session.request(...)` /            *)
(* `await response.text()`.  Each action below is one such atomic run.     *)
(***************************************************************************)
EXTENDS Integers, FiniteSets, Sequences, TLC

VARIABLES
    variant,       \* which server module the process runs
    phase,         \* where main() is: "not_started", "running", "finally", "exited"
    exitKind,      \* how the try block of main() was last left
    runs,          \* number of times main() was entered
    http_session,  \* the module global http_session (None or a session id)
    created,       \* number of ClientSession objects constructed so far
    closed,        \* closed[s]: ClientSession.closed of session s
    closeCalls,    \* closeCalls[s]: number of times close() ran on session s
    lastUsed,      \* session handed to the most recent handle_api_call
    pc,            \* pc[c]: position of the tool call in slot c
    call           \* call[c]: the data of the tool call in slot c

vars == <<variant, phase, exitKind, runs, http_session, created, closed,
          closeCalls, lastUsed, pc, call>>

sessionVars == <<http_session, created, closed, closeCalls>>

mainVars == <<variant, phase, exitKind, runs>>

----------------------------------------------------------------------------
(* Bounds of the model *)

\* tool calls that may be in flight at once
NumCalls == 2

\* ClientSession objects that may be constructed
MaxSessions == 2

\* times main() may be entered (asyncio.run(main()) in one interpreter)
MaxRuns == 2

Slots == 1..NumCalls

Sessions == 1..MaxSessions

\* http_session: Optional[ClientSession] = None
None == 0

----------------------------------------------------------------------------
(* JSON values of an arguments mapping.  A scalar is [t, v]; a key that is *)
(* not in the mapping is Absent.                                           *)

Absent == [t |-> "absent", v |-> ""]

NoneVal == [t |-> "null", v |-> ""]

StrVal(s) == [t |-> "str", v |-> s]

IntVal(s) == [t |-> "int", v |-> s]

\* dict.get(key, default)
Get(val, default) == IF val.t = "absent" THEN default ELSE val

\* Python truthiness of a scalar
Truthy(val) == \/ val.t = "str" /\ val.v # ""
               \/ val.t = "int" /\ val.v # "0"

\* str.upper() on the method names the model draws
Upper(s) ==
    CASE s = "get" -> "GET"
      [] s = "put" -> "PUT"
      [] s = "patch" -> "PATCH"
      [] OTHER -> s

(* A headers value: [t, m].  t = "map" is a dict, m gives each header name *)
(* its value or Missing; "str" and "null" are values that are no mapping.  *)

HeaderNames == {"Content-Type", "content-type"}

Missing == "<missing>"

EmptyMap == [h \in HeaderNames |-> Missing]

HAbsent == [t |-> "absent", m |-> EmptyMap]

HNull == [t |-> "null", m |-> EmptyMap]

HStr == [t |-> "str", m |-> EmptyMap]

HMap(f) == [t |-> "map", m |-> f]

Arguments(u, me, h, b, ci, msg) ==
    [url |-> u, method |-> me, headers |-> h, body |-> b, city |-> ci,
     message |-> msg]

NoArguments == Arguments(Absent, Absent, HAbsent, Absent, Absent, Absent)

----------------------------------------------------------------------------
(* What a tool call leaves with its caller.  kind is "tool_result" (a list *)
(* of TextContent), "raised" (an exception propagates out of the handler)  *)
(* or "exception_value" (an exception object handed back by `return`).     *)
(* keys are the keys of the JSON object in the text block.                 *)

Result(kind, exc, keys, error, status, url, method, city) ==
    [kind |-> kind, exc |-> exc, keys |-> keys, error |-> error,
     status |-> status, url |-> url, method |-> method, city |-> city]

NoResult == Result("none", "", {}, "", 0, Absent, "", Absent)

Raised(exc) == Result("raised", exc, {}, "", 0, Absent, "", Absent)

ReturnedException(exc) ==
    Result("exception_value", exc, {}, "", 0, Absent, "", Absent)

ResponseKeys == {"status_code", "headers", "body", "url", "method"}

ErrorKeys == {"error", "message", "url", "method"}

\* lines 138-147: the result of a completed, decoded response
ResponseResult(status, url, method) ==
    Result("tool_result", "", ResponseKeys, "", status, url, method, Absent)

\* lines 149-167: the two error reports of handle_api_call
ErrorResult(category, url, method) ==
    Result("tool_result", "", ErrorKeys, category, 0, url, method, Absent)

\* lines 188-198: the mock weather payload
WeatherResult(city) ==
    Result("tool_result", "",
           {"city", "temperature", "description", "humidity", "wind_speed",
            "note"}, "", 0, Absent, "", city)

\* the debug_info payload of either server
DebugInfoResult ==
    Result("tool_result", "",
           {"server_name", "timestamp", "tools_available",
            "resources_available", "status"}, "", 0, Absent, "", Absent)

\* mcpserver.py lines 56-60: one text block "Echo at <timestamp>: <message>"
EchoResult(message) ==
    Result("tool_result", "", {"echo"}, "", 0, Absent, "", message)

(* The keyword arguments of session.request, lines 122-131. *)

Kwargs(issued, method, url, headers, hasData, data) ==
    [issued |-> issued, method |-> method, url |-> url, headers |-> headers,
     hasData |-> hasData, data |-> data, ssl |-> FALSE]

NoRequest == Kwargs(FALSE, "", Absent, HAbsent, FALSE, Absent)

(* What the network did with a request: a response that completed (with a  *)
(* status, and a body that response.text() can or cannot decode), an       *)
(* aiohttp.ClientError, or another exception (asyncio.TimeoutError after   *)
(* the 30 s total timeout, a TypeError of the library).                    *)

Outcome(k, status, decodable) ==
    [k |-> k, status |-> status, decodable |-> decodable]

NoOutcome == Outcome("none", 0, FALSE)

StatusCodes == {200, 301, 404, 500}

Responses == {Outcome("response", st, d) : st \in StatusCodes, d \in BOOLEAN}

Failures == {Outcome("client_error", 0, FALSE), Outcome("other_error", 0, FALSE)}

EmptyCall ==
    [tool |-> "", arguments |-> NoArguments, args0 |-> NoArguments,
     used |-> None, kwargs |-> NoRequest, resp |-> NoOutcome,
     result |-> NoResult]

----------------------------------------------------------------------------
(* get_http_session, TestHttpToolsMcpServer.py lines 22-27 *)

\* a mutant: the presence check dropped, a new session for every call
SessionStale_Always(ref, cl) == TRUE

\* line 24: http_session is None or http_session.closed
SessionStale(ref, cl) == ref = None \/ cl[ref]

\* a mutant: the new session is bound to a local name, the global is kept
StoredSession_Local(ref, s) == ref

\* lines 23, 26: the new session is assigned to the global
StoredSession(ref, s) == s

\* a session that was constructed and is not closed
Live(s) == s \in 1..created /\ ~closed[s]

(* The whole coroutine: it holds no await, so the check and the assignment *)
(* are one step.  s is the session it returns.                             *)
get_http_session(s) ==
    IF SessionStale(http_session, closed)
    THEN /\ created < MaxSessions
         /\ s = created + 1
         /\ created' = created + 1
         /\ http_session' = StoredSession(http_session, s)
         /\ UNCHANGED <<closed, closeCalls>>
    ELSE /\ s = http_session
         /\ UNCHANGED sessionVars

----------------------------------------------------------------------------
(* handle_api_call, TestHttpToolsMcpServer.py lines 111-167 *)

\* line 114, before .upper(): arguments.get("method", "GET")
MethodArg(a) == Get(a.method, StrVal("GET"))

\* line 114: .upper() exists on a str only; the line is outside the try
MethodRaises(a) == MethodArg(a).t # "str"

\* line 114: the method the request is made with
MethodOf(a) == Upper(MethodArg(a).v)

\* line 115: arguments.get("headers", {}): the caller's own object when the
\* key is there, a new empty dict when it is not
HeadersOf(a) == IF a.headers.t = "absent" THEN HMap(EmptyMap) ELSE a.headers

\* line 115: whether `headers` is the object nested in `arguments`
HeadersAliased(a) == a.headers.t # "absent"

\* line 116: arguments.get("body")
BodyOf(a) == Get(a.body, NoneVal)

\* line 128: if body and method in ["POST", "PUT", "PATCH"]
AttachesBody(a) ==
    Truthy(BodyOf(a)) /\ MethodOf(a) \in {"POST", "PUT", "PATCH"}

\* lines 130-131 on a value that is no dict: `in` on None, or item
\* assignment on a str, raises TypeError (inside the try)
PrepareRaises(a) == AttachesBody(a) /\ HeadersOf(a).t # "map"

\* line 130: "Content-Type" not in headers (a dict: keys compare exactly)
LacksContentType(h) == h.m["Content-Type"] = Missing

\* lines 128-131: the headers object after the preparation
HeadersSent(a) ==
    LET h == HeadersOf(a) IN
    IF AttachesBody(a) /\ h.t = "map" /\ LacksContentType(h)
    THEN HMap([h.m EXCEPT !["Content-Type"] = "application/json"])
    ELSE h

\* the caller's mapping after lines 128-131: line 131 writes through the
\* alias of line 115
ArgumentsAfter(a) ==
    IF HeadersAliased(a) THEN [a EXCEPT !.headers = HeadersSent(a)] ELSE a

\* lines 122-131: kwargs of session.request
KwargsOf(a) ==
    Kwargs(TRUE, MethodOf(a), Get(a.url, NoneVal), HeadersSent(a),
           AttachesBody(a), IF AttachesBody(a) THEN BodyOf(a) ELSE Absent)

\* line 135: aiohttp sends a request only for a str url and headers that
\* are a mapping or None; anything else it rejects with an exception
CanComplete(kw) == kw.url.t = "str" /\ kw.headers.t \in {"map", "null"}

\* lines 135-136: what session.request / response.text() may do
Outcomes(kw) == IF CanComplete(kw) THEN Responses \cup Failures ELSE Failures

\* lines 135-167: the result for an outcome of the request
ResultOf(kw, o) ==
    CASE o.k = "response" /\ o.decodable ->
           ResponseResult(o.status, kw.url, kw.method)
      [] o.k = "client_error" ->
           ErrorResult("HTTP Client Error", kw.url, kw.method)
      [] OTHER ->
           ErrorResult("Unexpected Error", kw.url, kw.method)

----------------------------------------------------------------------------
(* The inputs the model draws *)

Url == "http://api.test/items"

Methods ==
    {Absent, StrVal("get"), StrVal("POST"), StrVal("put"), StrVal("PATCH"),
     StrVal("DELETE"), IntVal("5")}

HeaderValues ==
    {HAbsent, HNull, HStr} \cup
    {HMap(f) : f \in [HeaderNames -> {Missing, "text/plain"}]}

Bodies == {Absent, StrVal(""), StrVal("{}")}

\* every arguments mapping of fetch_api_data the model draws
AllFetchArgs ==
    {Arguments(u, me, h, b, Absent, Absent) :
        u \in {Absent, StrVal(Url)}, me \in Methods, h \in HeaderValues,
        b \in Bodies}

\* two of them, for the runs with several calls in flight
FewFetchArgs ==
    {Arguments(StrVal(Url), Absent, HAbsent, Absent, Absent, Absent),
     Arguments(StrVal(Url), StrVal("POST"), HMap(EmptyMap), StrVal("{}"),
               Absent, Absent)}

ToolNames ==
    {"debug_info", "fetch_api_data", "weather_api", "echo", "Debug_Info",
     "nonexistent_tool"}

\* the arguments a client sends with a tool name; F: those of fetch_api_data
ArgsFor(name, F) ==
    CASE name = "fetch_api_data" -> F
      [] name = "weather_api" ->
           {NoArguments, [NoArguments EXCEPT !.city = StrVal("Paris")]}
      [] name = "echo" ->
           {NoArguments, [NoArguments EXCEPT !.message = StrVal("hi")]}
      [] OTHER -> {NoArguments}

Variants == {"TestHttpToolsMcpServer", "mcpserver"}

\* the tools each server lists (list_tools) and dispatches on
RegisteredTools(v) ==
    IF v = "TestHttpToolsMcpServer"
    THEN {"debug_info", "fetch_api_data", "weather_api"}
    ELSE {"echo", "debug_info"}

----------------------------------------------------------------------------
(* The state after the module is imported *)

Init ==
    /\ variant \in Variants
    /\ phase = "not_started"
    /\ exitKind = "none"
    /\ runs = 0
    /\ http_session = None
    /\ created = 0
    /\ closed = [s \in Sessions |-> FALSE]
    /\ closeCalls = [s \in Sessions |-> 0]
    /\ lastUsed = None
    /\ pc = [c \in Slots |-> "idle"]
    /\ call = [c \in Slots |-> EmptyCall]

\* the call in slot c ends without suspending
Finish(c, name, a, after, s, res) ==
    /\ pc' = [pc EXCEPT ![c] = "done"]
    /\ call' = [call EXCEPT ![c] =
                  [tool |-> name, arguments |-> after, args0 |-> a,
                   used |-> s, kwargs |-> NoRequest, resp |-> NoOutcome,
                   result |-> res]]

\* lines 111-135: handle_api_call up to the request, its first suspension
handle_api_call(c, a) ==
    IF MethodRaises(a)
    THEN /\ Finish(c, "fetch_api_data", a, a, None, Raised("AttributeError"))
         /\ UNCHANGED <<sessionVars, lastUsed>>
    ELSE \E s \in Sessions :
           /\ get_http_session(s)
           /\ lastUsed' = s
           /\ IF PrepareRaises(a)
              THEN Finish(c, "fetch_api_data", a, ArgumentsAfter(a), s,
                          ErrorResult("Unexpected Error", Get(a.url, NoneVal),
                                      MethodOf(a)))
              ELSE /\ pc' = [pc EXCEPT ![c] = "awaiting"]
                   /\ call' = [call EXCEPT ![c] =
                        [tool |-> "fetch_api_data",
                         arguments |-> ArgumentsAfter(a), args0 |-> a,
                         used |-> s, kwargs |-> KwargsOf(a),
                         resp |-> NoOutcome, result |-> NoResult]]

\* lines 169-207: handle_weather_api
handle_weather_api(c, a) ==
    \E s \in Sessions :
      /\ get_http_session(s)
      /\ Finish(c, "weather_api", a, a, s, WeatherResult(Get(a.city, NoneVal)))
      /\ UNCHANGED lastUsed

\* TestHttpToolsMcpServer.py lines 88-109: handle_call_tool
HttpCallTool(c, name, a) ==
    /\ variant = "TestHttpToolsMcpServer"
    /\ phase = "running"
    /\ pc[c] = "idle"
    /\ IF name = "debug_info"
       THEN /\ Finish(c, name, a, a, None, DebugInfoResult)
            /\ UNCHANGED <<sessionVars, lastUsed>>
       ELSE IF name = "fetch_api_data"
       THEN handle_api_call(c, a)
       ELSE IF name = "weather_api"
       THEN handle_weather_api(c, a)
       ELSE /\ Finish(c, name, a, a, None, ReturnedException("ValueError"))
            /\ UNCHANGED <<sessionVars, lastUsed>>
    /\ UNCHANGED mainVars

\* lines 135-167: the request ends, the handler returns
FetchComplete(c, o) ==
    /\ phase = "running"
    /\ pc[c] = "awaiting"
    /\ o \in Outcomes(call[c].kwargs)
    /\ pc' = [pc EXCEPT ![c] = "done"]
    /\ call' = [call EXCEPT ![c].resp = o,
                            ![c].result = ResultOf(call[c].kwargs, o)]
    /\ UNCHANGED <<mainVars, sessionVars, lastUsed>>

\* mcpserver.py lines 50-74: handle_call_tool
McpCallTool(c, name, a) ==
    /\ variant = "mcpserver"
    /\ phase = "running"
    /\ pc[c] = "idle"
    /\ IF name = "echo"
       THEN Finish(c, name, a, a, None, EchoResult(Get(a.message, StrVal(""))))
       ELSE IF name = "debug_info"
       THEN Finish(c, name, a, a, None, DebugInfoResult)
       ELSE Finish(c, name, a, a, None, Raised("ValueError"))
    /\ UNCHANGED <<mainVars, sessionVars, lastUsed>>

\* handle_list_tools of either server: a fixed list, nothing is written
ListTools ==
    /\ phase = "running"
    /\ UNCHANGED vars

\* the protocol runtime takes the outcome of the call and frees the slot
Respond(c) ==
    /\ phase = "running"
    /\ pc[c] = "done"
    /\ pc' = [pc EXCEPT ![c] = "idle"]
    /\ call' = [call EXCEPT ![c] = EmptyCall]
    /\ UNCHANGED <<mainVars, sessionVars, lastUsed>>

----------------------------------------------------------------------------
(* main *)

\* a mutant: the cleanup closes whatever the global refers to
ShouldClose_Any(ref, cl) == ref # None

\* line 230: http_session and not http_session.closed
ShouldClose(ref, cl) == ref # None /\ ~cl[ref]

\* where main goes when its `async with` block is left: mcpserver.py has no
\* try/finally
AfterRun == IF variant = "TestHttpToolsMcpServer" THEN "finally" ELSE "exited"

\* main() is entered and server.run starts serving.  The finally block of
\* an earlier run closes the session but leaves the global bound to it, so a
\* later run starts with a closed session: the case line 24 tests for.
MainStart ==
    /\ phase \in {"not_started", "exited"}
    /\ runs < MaxRuns
    /\ phase' = "running"
    /\ runs' = runs + 1
    /\ exitKind' = "none"
    /\ UNCHANGED <<variant, sessionVars, lastUsed, pc, call>>

\* server.run returns: the input stream ended and every call was answered
ServerRunReturns ==
    /\ phase = "running"
    /\ \A c \in Slots : pc[c] = "idle"
    /\ phase' = AfterRun
    /\ exitKind' = "return"
    /\ UNCHANGED <<variant, runs, sessionVars, lastUsed, pc, call>>

\* an unhandled fault leaves server.run: its task group cancels the calls
\* still in flight
ServerRunFaults ==
    /\ phase = "running"
    /\ phase' = AfterRun
    /\ exitKind' = "fault"
    /\ pc' = [c \in Slots |-> "idle"]
    /\ call' = [c \in Slots |-> EmptyCall]
    /\ UNCHANGED <<variant, runs, sessionVars, lastUsed>>

\* TestHttpToolsMcpServer.py lines 227-232: the finally block of main
MainFinally ==
    /\ phase = "finally"
    /\ IF ShouldClose(http_session, closed)
       THEN /\ closed' = [closed EXCEPT ![http_session] = TRUE]
            /\ closeCalls' = [closeCalls EXCEPT ![http_session] = @ + 1]
       ELSE UNCHANGED <<closed, closeCalls>>
    /\ phase' = "exited"
    /\ UNCHANGED <<variant, exitKind, runs, http_session, created, lastUsed,
                   pc, call>>

----------------------------------------------------------------------------
(* The specifications: Spec has NumCalls calls in flight and few argument  *)
(* mappings; SpecFetch has one call at a time and every argument mapping.  *)

NextOver(S, F) ==
    \/ MainStart
    \/ ServerRunReturns
    \/ ServerRunFaults
    \/ MainFinally
    \/ ListTools
    \/ \E c \in S, name \in ToolNames :
         \E a \in ArgsFor(name, F) : HttpCallTool(c, name, a)
    \/ \E c \in S, name \in ToolNames :
         \E a \in ArgsFor(name, F) : McpCallTool(c, name, a)
    \/ \E c \in S : \E o \in Responses \cup Failures : FetchComplete(c, o)
    \/ \E c \in S : Respond(c)

Next == NextOver(Slots, FewFetchArgs)

Spec == Init /\ [][Next]_vars

NextFetch == NextOver({1}, AllFetchArgs)

SpecFetch == Init /\ [][NextFetch]_vars

----------------------------------------------------------------------------
(* Properties *)

\* a step in which the call of slot c enters handle_api_call and is handed
\* a session
FetchAcquires(c) ==
    /\ pc[c] = "idle"
    /\ pc'[c] # "idle"
    /\ call'[c].tool = "fetch_api_data"
    /\ call'[c].used # None

\* a step in which a handler other than handle_api_call runs in slot c
OtherHandlerRuns(c) ==
    /\ pc[c] = "idle"
    /\ pc'[c] = "done"
    /\ call'[c].tool # "fetch_api_data"

\* the call in slot c was a fetch_api_data call and has ended
FetchEnded(c) ==
    /\ variant = "TestHttpToolsMcpServer"
    /\ pc[c] = "done"
    /\ call[c].tool = "fetch_api_data"

\* a header named Content-Type in any letter case is in the caller's headers
SuppliesContentType(a) ==
    a.headers.t = "map" /\ \E h \in HeaderNames : a.headers.m[h] # Missing

(* C1: in every reachable state at most one session that was created and   *)
(* is not closed exists, whatever the interleaving of the tool calls.      *)
C1_AtMostOneLiveSession == Cardinality({s \in Sessions : Live(s)}) <= 1

\* two calls are in flight at once on the session that was created after
\* the first one had been closed
C1_Witness ==
    /\ pc[1] = "awaiting"
    /\ pc[2] = "awaiting"
    /\ call[1].used = 2
    /\ call[2].used = 2
    /\ closed[1]
    /\ Live(2)

(* C2: close() runs at most once on any session and only on a session that *)
(* is open; when main has left its finally block, on the return path and   *)
(* on the fault path, every session that was created has been closed once  *)
(* and none is live.                                                       *)
C2_ShutdownClosesOnce ==
    /\ \A s \in Sessions :
         /\ closeCalls[s] <= 1
         /\ closed[s] <=> closeCalls[s] = 1
    /\ phase = "exited" =>
         \A s \in 1..created : closeCalls[s] = 1 /\ ~Live(s)

\* main was left a second time, by a fault, with the session of the first
\* run still the global and already closed
C2_Witness ==
    /\ phase = "exited"
    /\ exitKind = "fault"
    /\ runs = 2
    /\ http_session = 1
    /\ closeCalls[1] = 1

(* C3: a fetch_api_data call is handed the session of the call before it   *)
(* unless that session is closed; a session is constructed only when the   *)
(* global is None or refers to a closed session, and the new session then  *)
(* becomes the global and is the one handed out.                           *)
C3_SessionReuse ==
    [][/\ created' # created =>
            /\ http_session = None \/ closed[http_session]
            /\ http_session' = created'
            /\ ~closed'[created']
       /\ \A c \in Slots :
            FetchAcquires(c) =>
              /\ call'[c].used = http_session'
              /\ (lastUsed # None /\ ~closed[lastUsed]) =>
                    call'[c].used = lastUsed]_vars

\* in the second run of main a call ended on the recreated session and the
\* next call was handed the same one
C3_Witness ==
    /\ pc[1] = "done"
    /\ call[1].result.keys = ResponseKeys
    /\ pc[2] = "awaiting"
    /\ call[1].used = 2
    /\ call[2].used = 2
    /\ closed[1]
    /\ created = 2

(* C4: every fetch_api_data call ends with a ToolResult, a list of text    *)
(* blocks; no exception leaves handle_api_call.                            *)
C4_HandlerNeverRaises ==
    \A c \in Slots :
      FetchEnded(c) =>
        /\ call[c].result.kind = "tool_result"
        /\ call[c].result.keys \in {ResponseKeys, ErrorKeys}

(* C5: in both servers a tool name that is not registered makes call_tool  *)
(* raise; nothing is returned to the caller.                               *)
C5_UnknownToolRaises ==
    \A c \in Slots :
      (pc[c] = "done" /\ call[c].tool \notin RegisteredTools(variant)) =>
        /\ call[c].result.kind = "raised"
        /\ call[c].result.exc = "ValueError"

(* C6: a call of a tool other than fetch_api_data leaves the shared        *)
(* session as it was: none is created, replaced or closed.                 *)
C6_OnlyFetchTouchesSession ==
    [][(\E c \in Slots : OtherHandlerRuns(c)) =>
          UNCHANGED <<http_session, created, closed>>]_vars

(* C7: the request carries a payload if and only if a body string was      *)
(* supplied (the empty string included) and the upper-cased method is POST *)
(* or PUT; the payload is that body.                                       *)
C7_BodyOnlyForPostPut ==
    \A c \in Slots :
      call[c].kwargs.issued =>
        LET a == call[c].args0 IN
        /\ call[c].kwargs.hasData <=>
             (a.body.t = "str" /\ MethodOf(a) \in {"POST", "PUT"})
        /\ call[c].kwargs.hasData => call[c].kwargs.data = a.body

(* C8: with a body attached and method POST or PUT the request carries     *)
(* Content-Type: application/json exactly when the caller supplied no      *)
(* Content-Type header in any letter case, and a supplied one is sent as   *)
(* it was with no second one added; with no body attached the headers are  *)
(* the caller's.  (Stated for the bodies the code attaches; the empty body *)
(* is the case of C7.)                                                     *)
C8_DefaultContentType ==
    \A c \in Slots :
      call[c].kwargs.issued =>
        LET a == call[c].args0
            sent == call[c].kwargs.headers
        IN  IF Truthy(BodyOf(a)) /\ MethodOf(a) \in {"POST", "PUT"}
            THEN IF SuppliesContentType(a)
                 THEN sent = a.headers
                 ELSE /\ sent.m["Content-Type"] = "application/json"
                      /\ sent.m["content-type"] = Missing
            ELSE ~call[c].kwargs.hasData => sent = HeadersOf(a)

(* C9: when the remote server completed a response, whatever its status,   *)
(* the call ends with the normal result carrying that status; an error     *)
(* report is returned only when no response completed.                     *)
C9_CompletedResponseIsResult ==
    \A c \in Slots :
      FetchEnded(c) =>
        /\ call[c].resp.k = "response" =>
             /\ call[c].result.keys = ResponseKeys
             /\ call[c].result.status = call[c].resp.status
        /\ call[c].result.keys = ErrorKeys => call[c].resp.k # "response"

(* C10: when a fetch_api_data call has ended, the caller's arguments       *)
(* mapping, its nested headers mapping included, is what it was before.    *)
C10_ArgumentsUnchanged ==
    \A c \in Slots : FetchEnded(c) => call[c].arguments = call[c].args0

============================================================================
